---- MODULE Spec2Model ----
(***************************************************************************)
(* Response resolution of the university FAQ chatbot (chatbot_app.py):     *)
(* input validation, rule-based intent classification, the course / fee /  *)
(* time / greeting handlers, fuzzy knowledge-base matching, the            *)
(* per-session state that process_user_input updates on every turn, the    *)
(* log file it appends to, and the script runs of the page (widget events  *)
(* and the reruns st.rerun() asks for).                                    *)
(*                                                                         *)
(* Python strings are sequences of one-character strings, so that          *)
(* substring tests, strip(), lower(), split() and SequenceMatcher work on  *)
(* characters.  Floats are exact rationals <<n, d>> in lowest terms; the   *)
(* one place where binary64 rounding is visible, the comparison of a       *)
(* combined score with 0.3, is modelled by ExceedsThreshold.               *)
(***************************************************************************)
EXTENDS Integers, Sequences, FiniteSets, TLC

VARIABLES history, course_pending, current_course, conversation_context,
          knowledge_base, logs, chat_input, rerun_requested, resolved

\* st.session_state of one browser session, the cached knowledge base, the
\* file chat_logs.json, the value of the "chat_input" text widget, whether
\* st.rerun() has asked for another script run, and the outcome of a direct
\* call of get_enhanced_response.
vars == <<history, course_pending, current_course, conversation_context,
          knowledge_base, logs, chat_input, rerun_requested, resolved>>

\* Longest dialogue explored: turns processed since the last clear.
MaxTurns == 2

\* validate_input rejects sanitized input longer than this.
MaxInputLen == 500

\* process_user_input keeps this many conversation_context items.
ContextCap == 10

\* log_interaction keeps this many records in chat_logs.json.
LogCap == 1000

\* Longest run of turns explored where the context window has to fill up.
MaxLongTurns == 12

\* Python's None.
None == "None"

----------------------------------------------------------------------------
\* Rationals

RECURSIVE GCD(_, _)
GCD(m, n) == IF n = 0 THEN m ELSE GCD(n, m % n)

Rat(n, d) == LET g == GCD(n, d) IN IF g = 0 THEN <<0, 1>> ELSE <<n \div g, d \div g>>

RatLt(x, y) == x[1] * y[2] < y[1] * x[2]

RatLe(x, y) == x[1] * y[2] <= y[1] * x[2]

Zero == Rat(0, 1)

One == Rat(1, 1)

----------------------------------------------------------------------------
\* Python string operations

Whitespace == {" "}

\* Characters removed by validate_input's re.sub(r'[<>"\']', '', ...).
Harmful == {"<", ">", "\"", "'"}

\* str.lower() on the ASCII letters.
UpperCase ==
    <<"A", "B", "C", "D", "E", "F", "G", "H", "I", "J", "K", "L", "M",
      "N", "O", "P", "Q", "R", "S", "T", "U", "V", "W", "X", "Y", "Z">>

LowerCase ==
    <<"a", "b", "c", "d", "e", "f", "g", "h", "i", "j", "k", "l", "m",
      "n", "o", "p", "q", "r", "s", "t", "u", "v", "w", "x", "y", "z">>

LowerOf == [c \in {UpperCase[i] : i \in 1..Len(UpperCase)} |->
               LowerCase[CHOOSE i \in 1..Len(UpperCase) : UpperCase[i] = c]]

lower(s) == [i \in 1..Len(s) |-> IF s[i] \in DOMAIN LowerOf THEN LowerOf[s[i]] ELSE s[i]]

RECURSIVE lstrip(_)
lstrip(s) == IF s # <<>> /\ Head(s) \in Whitespace THEN lstrip(Tail(s)) ELSE s

RECURSIVE rstrip(_)
rstrip(s) == IF s # <<>> /\ s[Len(s)] \in Whitespace THEN rstrip(SubSeq(s, 1, Len(s) - 1)) ELSE s

strip(s) == rstrip(lstrip(s))

\* Python's `w in s` on strings.
contains(s, w) == \E i \in 1..(Len(s) - Len(w) + 1) : SubSeq(s, i, i + Len(w) - 1) = w

\* The last index of the word of s that starts at index i.
RECURSIVE word_end(_, _)
word_end(s, i) ==
    IF i = Len(s) \/ s[i + 1] \in Whitespace THEN i ELSE word_end(s, i + 1)

\* set(s.split()): the maximal runs of non-whitespace characters.
split(s) ==
    { SubSeq(s, i, word_end(s, i)) :
        i \in { k \in 1..Len(s) : s[k] \notin Whitespace /\ (k = 1 \/ s[k - 1] \in Whitespace) } }

----------------------------------------------------------------------------
\* difflib.SequenceMatcher(None, a, b).ratio() for len(b) < 200 (no autojunk)

\* Length of the common run a[i:] / b[j:] inside a[:ahi], b[:bhi] (0-based).
RECURSIVE run(_, _, _, _, _, _)
run(a, b, i, j, ahi, bhi) ==
    IF i < ahi /\ j < bhi /\ a[i + 1] = b[j + 1]
    THEN 1 + run(a, b, i + 1, j + 1, ahi, bhi)
    ELSE 0

\* The longest matching block of a[alo:ahi] and b[blo:bhi]; of all the
\* longest, the one starting earliest in a, and of those earliest in b.
find_longest_match(a, b, alo, ahi, blo, bhi) ==
    LET starts == {p \in (alo..(ahi - 1)) \X (blo..(bhi - 1)) : a[p[1] + 1] = b[p[2] + 1]}
        blocks == {<<p[1], p[2], run(a, b, p[1], p[2], ahi, bhi)>> : p \in starts}
        sizes == {m[3] : m \in blocks}
        longest == CHOOSE k \in sizes : \A n \in sizes : n <= k
        tops == {m \in blocks : m[3] = longest}
    IN  IF starts = {} THEN <<alo, blo, 0>>
        ELSE CHOOSE m \in tops : \A q \in tops :
                m[1] < q[1] \/ (m[1] = q[1] /\ m[2] <= q[2])

\* Sum of the sizes of get_matching_blocks(): the longest block, then the
\* pieces to its left and to its right.
RECURSIVE matches(_, _, _, _, _, _)
matches(a, b, alo, ahi, blo, bhi) ==
    LET around(m) ==
            IF m[3] = 0 THEN 0
            ELSE m[3] + matches(a, b, alo, m[1], blo, m[2])
                      + matches(a, b, m[1] + m[3], ahi, m[2] + m[3], bhi)
    IN  around(find_longest_match(a, b, alo, ahi, blo, bhi))

ratio(a, b) ==
    IF Len(a) + Len(b) = 0 THEN One
    ELSE Rat(2 * matches(a, b, 0, Len(a), 0, Len(b)), Len(a) + Len(b))

----------------------------------------------------------------------------
\* Static tables

\* LANG_CODES, and LANG_CODES.get(code, "en").
LANG_CODES == ("en" :> "en") @@ ("zh-cn" :> "zh-CN") @@ ("ms" :> "ms") @@ ("ta" :> "ta")

lang_code(code) == IF code \in DOMAIN LANG_CODES THEN LANG_CODES[code] ELSE "en"

\* COURSES in insertion order: canonical name and keyword list.
COURSES == <<
    [name |-> "computer science",
     chars |-> <<"c", "o", "m", "p", "u", "t", "e", "r", " ", "s", "c", "i", "e", "n", "c", "e">>,
     keywords |-> <<<<"c", "o", "m", "p", "u", "t", "e", "r">>, <<"c", "s">>, <<"p", "r", "o", "g", "r", "a", "m", "m", "i", "n", "g">>, <<"s", "o", "f", "t", "w", "a", "r", "e">>, <<"c", "o", "d", "i", "n", "g">>>>],
    [name |-> "information technology",
     chars |-> <<"i", "n", "f", "o", "r", "m", "a", "t", "i", "o", "n", " ", "t", "e", "c", "h", "n", "o", "l", "o", "g", "y">>,
     keywords |-> <<<<"i", "t">>, <<"i", "n", "f", "o", "r", "m", "a", "t", "i", "o", "n", " ", "t", "e", "c", "h", "n", "o", "l", "o", "g", "y">>, <<"n", "e", "t", "w", "o", "r", "k", "i", "n", "g">>, <<"s", "y", "s", "t", "e", "m", "s">>>>],
    [name |-> "business",
     chars |-> <<"b", "u", "s", "i", "n", "e", "s", "s">>,
     keywords |-> <<<<"b", "u", "s", "i", "n", "e", "s", "s">>, <<"m", "a", "n", "a", "g", "e", "m", "e", "n", "t">>, <<"m", "a", "r", "k", "e", "t", "i", "n", "g">>, <<"f", "i", "n", "a", "n", "c", "e">>, <<"m", "b", "a">>>>] >>

\* The sample table load_knowledge_base writes when the CSV is missing.
sample_data == <<
    [question |-> <<"w", "h", "a", "t", " ", "a", "r", "e", " ", "t", "h", "e", " ", "a", "d", "m", "i", "s", "s", "i", "o", "n", " ", "r", "e", "q", "u", "i", "r", "e", "m", "e", "n", "t", "s">>, answer |-> "Admission requirements include"],
    [question |-> <<"h", "o", "w", " ", "m", "u", "c", "h", " ", "i", "s", " ", "t", "u", "i", "t", "i", "o", "n", " ", "f", "e", "e">>, answer |-> "Tuition fees vary by program"],
    [question |-> <<"w", "h", "e", "n", " ", "d", "o", " ", "c", "l", "a", "s", "s", "e", "s", " ", "s", "t", "a", "r", "t">>, answer |-> "Classes typically start"],
    [question |-> <<"w", "h", "a", "t", " ", "c", "o", "u", "r", "s", "e", "s", " ", "a", "r", "e", " ", "a", "v", "a", "i", "l", "a", "b", "l", "e">>, answer |-> "We offer programs in"],
    [question |-> <<"h", "o", "w", " ", "t", "o", " ", "a", "p", "p", "l", "y", " ", "f", "o", "r", " ", "s", "c", "h", "o", "l", "a", "r", "s", "h", "i", "p">>, answer |-> "Scholarships are available"] >>

\* A response text: which message it is, the topic and detail it was built
\* from, and the language it is rendered in.
Resp(kind, topic, detail, lang) == [kind |-> kind, topic |-> topic, detail |-> detail, lang |-> lang]

\* Languages for which the handlers hold a localized text.
Localized == {"en", "zh-CN", "ms", "ta"}

localized(lang) == IF lang \in Localized THEN lang ELSE "en"

----------------------------------------------------------------------------
\* Validation, detection, translation, loading

sanitize(text) == SelectSeq(strip(text), LAMBDA c : c \notin Harmful)

\* validate_input raises ChatbotException on empty or over-long input.
validate_raises(text) == text = <<>> \/ Len(sanitize(text)) > MaxInputLen

validate_input(text) == sanitize(text)

\* safe_detect_language: `detected` is what langdetect.detect returns for the
\* text, or "raise" when it throws.
safe_detect_language(text, detected) ==
    IF text = <<>> \/ detected = "raise" THEN "en" ELSE lang_code(detected)

\* GoogleTranslator(target=LANG_CODES.get(target_lang, "en")).translate(text):
\* translator_ok is whether it returned a non-empty result; on an empty result
\* or an exception safe_translate hands the text back unchanged.
translate(text, target_lang, translator_ok) ==
    IF translator_ok THEN [text EXCEPT !.lang = lang_code(target_lang)] ELSE text

\* safe_translate: no call at all when the target is "en".
safe_translate(text, target_lang, translated) ==
    IF target_lang = "en" THEN text ELSE translated

\* load_knowledge_base: the CSV is missing (sample data), unreadable (empty
\* frame) or holds rows; questions are stripped and lower-cased.
load_knowledge_base(file) ==
    IF file.status = "corrupt" THEN <<>>
    ELSE LET df == IF file.status = "missing" THEN sample_data ELSE file.rows
         IN [i \in 1..Len(df) |-> [question |-> lower(strip(df[i].question)),
                                   answer |-> df[i].answer]]

----------------------------------------------------------------------------
\* Intent classification and handlers

any_in(words, user_input) == \E i \in 1..Len(words) : contains(user_input, words[i])

greetings == <<<<"h", "e", "l", "l", "o">>, <<"h", "i">>, <<"h", "e", "y">>, <<"g", "o", "o", "d", " ", "m", "o", "r", "n", "i", "n", "g">>, <<"g", "o", "o", "d", " ", "a", "f", "t", "e", "r", "n", "o", "o", "n">>>>

course_keywords == <<<<"c", "o", "u", "r", "s", "e">>, <<"p", "r", "o", "g", "r", "a", "m">>, <<"s", "t", "u", "d", "y">>, <<"c", "u", "r", "r", "i", "c", "u", "l", "u", "m">>, <<"s", "y", "l", "l", "a", "b", "u", "s">>>>

fee_keywords == <<<<"f", "e", "e">>, <<"c", "o", "s", "t">>, <<"p", "r", "i", "c", "e">>, <<"t", "u", "i", "t", "i", "o", "n">>, <<"p", "a", "y", "m", "e", "n", "t">>>>

time_keywords == <<<<"t", "i", "m", "e">>, <<"w", "h", "e", "n">>, <<"s", "c", "h", "e", "d", "u", "l", "e">>, <<"c", "a", "l", "e", "n", "d", "a", "r">>>>

classify_intent(user_input) ==
    IF any_in(greetings, user_input) THEN "greeting"
    ELSE IF any_in(course_keywords, user_input) THEN "course_inquiry"
    ELSE IF any_in(fee_keywords, user_input) THEN "fees"
    ELSE IF any_in(time_keywords, user_input) THEN "time"
    ELSE "general"

handle_greeting(lang) == Resp("greeting", "", "", localized(lang))

\* handle_course_inquiry reporting a keyword hit as certain (1.0 for 0.9).
handle_course_inquiry_certain(user_input, lang) ==
    LET hits == {i \in 1..Len(COURSES) : any_in(COURSES[i].keywords, user_input)}
    IN  IF hits # {}
        THEN LET first == CHOOSE i \in hits : \A j \in hits : i <= j
             IN <<Resp("course_description", COURSES[first].name, "", "en"), One>>
        ELSE <<Resp("course_list", "", "", "en"), Rat(8, 10)>>

\* The course description ends with "Would you like to know more about the
\* curriculum or admission requirements?"; it does not list the curriculum.
handle_course_inquiry(user_input, lang) ==
    LET hits == {i \in 1..Len(COURSES) : any_in(COURSES[i].keywords, user_input)}
    IN  IF hits # {}
        THEN LET first == CHOOSE i \in hits : \A j \in hits : i <= j
             IN <<Resp("course_description", COURSES[first].name, "", "en"), Rat(9, 10)>>
        ELSE <<Resp("course_list", "", "", "en"), Rat(8, 10)>>

handle_fees_inquiry(user_input, lang) ==
    LET course == current_course
        student_type ==
            IF contains(user_input, <<"i", "n", "t", "e", "r", "n", "a", "t", "i", "o", "n", "a", "l">>) THEN "international"
            ELSE IF contains(user_input, <<"d", "o", "m", "e", "s", "t", "i", "c">>) \/ contains(user_input, <<"l", "o", "c", "a", "l">>)
                 THEN "domestic"
                 ELSE ""
    IN  IF student_type = "" THEN <<Resp("fee_table", "", "", "en"), One>>
        ELSE IF course # None THEN <<Resp("fee_for_course", course, student_type, "en"), One>>
        ELSE <<Resp("fee_for_type", "", student_type, "en"), One>>

handle_time_query(lang) == Resp("time", "", "", localized(lang))

----------------------------------------------------------------------------
\* Fuzzy knowledge-base matching

\* (overlap_ratio * 0.6) + (seq_ratio * 0.4) as a real number.
combined(overlap_ratio, seq_ratio) ==
    Rat(3 * overlap_ratio[1] * seq_ratio[2] + 2 * seq_ratio[1] * overlap_ratio[2],
        5 * overlap_ratio[2] * seq_ratio[2])

\* The overlap ratios (with at most eight words in the union) whose combined
\* score is 3/10 as a real number but evaluates in binary64 to
\* 0.30000000000000004: 0/1 with 3/4, 1/5 with 9/20, 1/4 with 3/8.  Every
\* other score of real value 3/10 evaluates to the double 0.3, and a score of
\* any other real value compares with 0.3 as the real numbers do.
RoundsAbove == {Rat(0, 1), Rat(1, 5), Rat(1, 4)}

\* combined_score > 0.3
ExceedsThreshold(overlap_ratio, seq_ratio) ==
    LET c == combined(overlap_ratio, seq_ratio)
    IN  \/ RatLt(Rat(3, 10), c)
        \/ c = Rat(3, 10) /\ overlap_ratio \in RoundsAbove

overlap_ratio_of(user_words, question_words) ==
    IF user_words \cup question_words # {}
    THEN Rat(Cardinality(user_words \cap question_words),
             Cardinality(user_words \cup question_words))
    ELSE Zero

\* fuzzy_match_kb accepting a score of 0.3 (>= for >).
fuzzy_match_kb_inclusive(user_input, kb) ==
    IF kb = <<>> THEN <<Resp("kb_empty", "", "", "en"), Zero>>
    ELSE
      LET best_match(score, matched) ==
              IF matched # {}
              THEN LET answer(best) ==
                           <<Resp("kb_answer", "", kb[best].answer, "en"), score[best]>>
                   IN answer(CHOOSE i \in matched : \A j \in matched :
                                \/ RatLt(score[j], score[i])
                                \/ score[j] = score[i] /\ i <= j)
              ELSE <<Resp("no_relevant", "", "", "en"), Zero>>
          scored(parts) ==
              best_match([idx \in 1..Len(kb) |-> combined(parts[idx][1], parts[idx][2])],
                         {idx \in 1..Len(kb) : RatLe(Rat(3, 10), combined(parts[idx][1], parts[idx][2]))})
          compared(user_lower) ==
              scored([idx \in 1..Len(kb) |->
                        <<overlap_ratio_of(split(user_lower), split(kb[idx].question)),
                          ratio(user_lower, kb[idx].question)>>])
      IN  compared(lower(user_input))

\* fuzzy_match_kb letting the last of the entries with the best score win.
fuzzy_match_kb_last_wins(user_input, kb) ==
    IF kb = <<>> THEN <<Resp("kb_empty", "", "", "en"), Zero>>
    ELSE
      LET best_match(score, matched) ==
              IF matched # {}
              THEN LET answer(best) ==
                           <<Resp("kb_answer", "", kb[best].answer, "en"), score[best]>>
                   IN answer(CHOOSE i \in matched : \A j \in matched :
                                \/ RatLt(score[j], score[i])
                                \/ score[j] = score[i] /\ i >= j)
              ELSE <<Resp("no_relevant", "", "", "en"), Zero>>
          scored(parts) ==
              best_match([idx \in 1..Len(kb) |-> combined(parts[idx][1], parts[idx][2])],
                         {idx \in 1..Len(kb) : ExceedsThreshold(parts[idx][1], parts[idx][2])})
          compared(user_lower) ==
              scored([idx \in 1..Len(kb) |->
                        <<overlap_ratio_of(split(user_lower), split(kb[idx].question)),
                          ratio(user_lower, kb[idx].question)>>])
      IN  compared(lower(user_input))

fuzzy_match_kb(user_input, kb) ==
    IF kb = <<>> THEN <<Resp("kb_empty", "", "", "en"), Zero>>
    ELSE
      LET best_match(score, matched) ==
              IF matched # {}
              THEN LET answer(best) ==
                           <<Resp("kb_answer", "", kb[best].answer, "en"), score[best]>>
                   IN answer(CHOOSE i \in matched : \A j \in matched :
                                \/ RatLt(score[j], score[i])
                                \/ score[j] = score[i] /\ i <= j)
              ELSE <<Resp("no_relevant", "", "", "en"), Zero>>
          scored(parts) ==
              best_match([idx \in 1..Len(kb) |-> combined(parts[idx][1], parts[idx][2])],
                         {idx \in 1..Len(kb) : ExceedsThreshold(parts[idx][1], parts[idx][2])})
          compared(user_lower) ==
              scored([idx \in 1..Len(kb) |->
                        <<overlap_ratio_of(split(user_lower), split(kb[idx].question)),
                          ratio(user_lower, kb[idx].question)>>])
      IN  compared(lower(user_input))

----------------------------------------------------------------------------
\* The resolver

fallback_responses(lang) == Resp("fallback", "", "", localized(lang))

error_reply == Resp("error_apology", "", "", "en")

get_enhanced_response(user_input_raw, detected_lang, translator_ok) ==
    IF validate_raises(user_input_raw)
    THEN [response |-> error_reply, confidence |-> Zero,
          translated_input |-> user_input_raw, intent |-> "error"]
    ELSE
      LET reply(translated_input, intent, handled) ==
              [response |->
                  IF detected_lang # "en" /\ RatLt(Zero, handled[2])
                  THEN safe_translate(handled[1], detected_lang,
                                      translate(handled[1], detected_lang, translator_ok))
                  ELSE handled[1],
               confidence |-> handled[2],
               translated_input |-> translated_input, intent |-> intent]
          general(m) ==
              IF RatLt(m[2], Rat(3, 10))
              THEN <<fallback_responses(detected_lang), Zero>>
              ELSE m
          handle(translated_input, user_input_lower, intent) ==
              reply(translated_input, intent,
                    IF intent = "greeting" THEN <<handle_greeting(detected_lang), One>>
                    ELSE IF intent = "course_inquiry"
                         THEN handle_course_inquiry(user_input_lower, detected_lang)
                    ELSE IF intent = "fees"
                         THEN handle_fees_inquiry(user_input_lower, detected_lang)
                    ELSE IF intent = "time" THEN <<handle_time_query(detected_lang), One>>
                    ELSE general(fuzzy_match_kb(translated_input, knowledge_base)))
          classify(translated_input, user_input_lower) ==
              handle(translated_input, user_input_lower, classify_intent(user_input_lower))
          resolve(translated_input) ==
              classify(translated_input, lower(translated_input))
          translated(user_input) ==
              resolve(IF detected_lang # "en" THEN safe_translate(user_input, "en", user_input)
                      ELSE user_input)
      IN  translated(validate_input(user_input_raw))

----------------------------------------------------------------------------
\* Session state and the turn

\* initialize_session, with the knowledge base as loaded from the CSV.
KnowledgeFiles == {
    [status |-> "missing", rows |-> <<>>],
    [status |-> "corrupt", rows |-> <<>>],
    [status |-> "ok", rows |-> <<
        [question |-> <<"i", "s", " ", "a">>, answer |-> "Visa answer"],
        [question |-> <<"o", "k", " ", "a">>, answer |-> "Ok answer"],
        [question |-> <<" ", "E", "x", "a", "m", " ", "H", "a", "l", "l", " ">>, answer |-> "Exam hall answer"],
        [question |-> <<"i", "s", " ", "a">>, answer |-> "Second visa answer"],
        [question |-> <<" ">>, answer |-> "Blank answer"] >>] }

\* st.session_state.session_id of the session and of a second browser
\* session that shares the log file.
session_id == "s1"

other_session_id == "s2"

\* chat_logs.json: absent, not parseable as JSON, or a list of records.
LogMissing == [status |-> "missing", records |-> <<>>]

LogCorrupt == [status |-> "corrupt", records |-> <<>>]

\* The record log_interaction builds; datetime.now() is the constant "now".
log_entry(session, user_text, detected_lang, r, turn) ==
    [timestamp |-> "now", session_id |-> session, user_text |-> user_text,
     detected_lang |-> detected_lang, translated_input |-> r.translated_input,
     bot_reply |-> r.response, confidence |-> r.confidence, intent |-> r.intent,
     conversation_turn |-> turn]

\* log_interaction: read the list (json.load raises on a file that does not
\* parse; the exception is caught and nothing is written), append the record,
\* keep the last LogCap records, write the list back.
write_log(file, entry) ==
    IF file.status = "corrupt" THEN file
    ELSE LET appended(all) ==
                 [status |-> "ok",
                  records |-> IF Len(all) > LogCap
                              THEN SubSeq(all, Len(all) - LogCap + 1, Len(all))
                              ELSE all]
         IN appended(Append(file.records, entry))

log_interaction(file, user_text, detected_lang, r, turn) ==
    write_log(file, log_entry(session_id, user_text, detected_lang, r, turn))

\* No direct call of get_enhanced_response has been made.
NotCalled == [called |-> FALSE]

\* initialize_session on the first script run, with the knowledge base as
\* loaded from the CSV; the widgets are untouched.
InitSession ==
    /\ history = <<>>
    /\ course_pending = None
    /\ current_course = None
    /\ conversation_context = <<>>
    /\ knowledge_base \in {load_knowledge_base(file) : file \in KnowledgeFiles}
    /\ chat_input = <<>>
    /\ rerun_requested = FALSE
    /\ resolved = NotCalled

\* A first deployment: no log file yet.
Init == InitSession /\ logs = LogMissing

\* process_user_input remembering the topic it asked about and never
\* forgetting it.
process_user_input_keeps_pending(user_input, detected, translator_ok) ==
    IF strip(user_input) = <<>>
    THEN /\ rerun_requested' = FALSE
         /\ UNCHANGED <<history, course_pending, current_course, conversation_context,
                        knowledge_base, logs>>
    ELSE /\ LET record(detected_lang, r) ==
                  LET context == Append(conversation_context,
                                        [user_input |-> user_input, intent |-> r.intent,
                                         confidence |-> r.confidence])
                  IN /\ history' = history \o << <<"You", user_input>>, <<"Bot", r.response>> >>
                     /\ conversation_context' =
                           IF Len(context) > ContextCap
                           THEN SubSeq(context, Len(context) - ContextCap + 1, Len(context))
                           ELSE context
                     /\ logs' = log_interaction(logs, user_input, detected_lang, r,
                                                (Len(history) + 2) \div 2)
                     /\ course_pending' =
                           IF r.response.kind = "course_description" THEN r.response.topic
                           ELSE course_pending
                detect(detected_lang) ==
                  record(detected_lang,
                         get_enhanced_response(user_input, detected_lang, translator_ok))
            IN detect(safe_detect_language(user_input, detected))
         /\ rerun_requested' = TRUE
         /\ UNCHANGED <<current_course, knowledge_base>>

\* process_user_input whose except branch also runs after the turn (the bare
\* apology appended behind the pair).
process_user_input_catches_rerun(user_input, detected, translator_ok) ==
    IF strip(user_input) = <<>>
    THEN /\ rerun_requested' = FALSE
         /\ UNCHANGED <<history, course_pending, current_course, conversation_context,
                        knowledge_base, logs>>
    ELSE /\ LET record(detected_lang, r) ==
                  LET context == Append(conversation_context,
                                        [user_input |-> user_input, intent |-> r.intent,
                                         confidence |-> r.confidence])
                  IN /\ history' = history \o << <<"You", user_input>>, <<"Bot", r.response>>, <<"Bot", error_reply>> >>
                     /\ conversation_context' =
                           IF Len(context) > ContextCap
                           THEN SubSeq(context, Len(context) - ContextCap + 1, Len(context))
                           ELSE context
                     /\ logs' = log_interaction(logs, user_input, detected_lang, r,
                                                (Len(history) + 2) \div 2)
                detect(detected_lang) ==
                  record(detected_lang,
                         get_enhanced_response(user_input, detected_lang, translator_ok))
            IN detect(safe_detect_language(user_input, detected))
         /\ rerun_requested' = TRUE
         /\ UNCHANGED <<course_pending, current_course, knowledge_base>>

\* process_user_input trimming the context to its first ten items
\* (conversation_context[:10] for [-10:]).
process_user_input_keeps_oldest(user_input, detected, translator_ok) ==
    IF strip(user_input) = <<>>
    THEN /\ rerun_requested' = FALSE
         /\ UNCHANGED <<history, course_pending, current_course, conversation_context,
                        knowledge_base, logs>>
    ELSE /\ LET record(detected_lang, r) ==
                  LET context == Append(conversation_context,
                                        [user_input |-> user_input, intent |-> r.intent,
                                         confidence |-> r.confidence])
                  IN /\ history' = history \o << <<"You", user_input>>, <<"Bot", r.response>> >>
                     /\ conversation_context' =
                           IF Len(context) > ContextCap
                           THEN SubSeq(context, 1, ContextCap)
                           ELSE context
                     /\ logs' = log_interaction(logs, user_input, detected_lang, r,
                                                (Len(history) + 2) \div 2)
                detect(detected_lang) ==
                  record(detected_lang,
                         get_enhanced_response(user_input, detected_lang, translator_ok))
            IN detect(safe_detect_language(user_input, detected))
         /\ rerun_requested' = TRUE
         /\ UNCHANGED <<course_pending, current_course, knowledge_base>>

\* process_user_input for one message: the early return on a blank message
\* (the script then runs to its end), else language detection, the resolver,
\* the two history entries, the context item and its trimming, the log
\* record, and st.rerun(), whose RerunException is no Exception and so
\* passes the except clause.
process_user_input(user_input, detected, translator_ok) ==
    IF strip(user_input) = <<>>
    THEN /\ rerun_requested' = FALSE
         /\ UNCHANGED <<history, course_pending, current_course, conversation_context,
                        knowledge_base, logs>>
    ELSE /\ LET record(detected_lang, r) ==
                  LET context == Append(conversation_context,
                                        [user_input |-> user_input, intent |-> r.intent,
                                         confidence |-> r.confidence])
                  IN /\ history' = history \o << <<"You", user_input>>, <<"Bot", r.response>> >>
                     /\ conversation_context' =
                           IF Len(context) > ContextCap
                           THEN SubSeq(context, Len(context) - ContextCap + 1, Len(context))
                           ELSE context
                     /\ logs' = log_interaction(logs, user_input, detected_lang, r,
                                                (Len(history) + 2) \div 2)
                detect(detected_lang) ==
                  record(detected_lang,
                         get_enhanced_response(user_input, detected_lang, translator_ok))
            IN detect(safe_detect_language(user_input, detected))
         /\ rerun_requested' = TRUE
         /\ UNCHANGED <<course_pending, current_course, knowledge_base>>

\* The sidebar's "Clear Chat History" button, which ends in st.rerun().
ClearChat ==
    /\ history' = <<>>
    /\ course_pending' = None
    /\ current_course' = None
    /\ conversation_context' = <<>>
    /\ rerun_requested' = TRUE
    /\ UNCHANGED <<knowledge_base, logs, chat_input, resolved>>

\* chat_interface's quick question buttons.
quick_options == <<
    <<"W", "h", "a", "t", " ", "c", "o", "u", "r", "s", "e", "s", " ", "d", "o", " ", "y", "o", "u", " ", "o", "f", "f", "e", "r", "?">>, <<"A", "d", "m", "i", "s", "s", "i", "o", "n", " ", "r", "e", "q", "u", "i", "r", "e", "m", "e", "n", "t", "s">>, <<"T", "u", "i", "t", "i", "o", "n", " ", "f", "e", "e", "s">>,
    <<"C", "a", "m", "p", "u", "s", " ", "f", "a", "c", "i", "l", "i", "t", "i", "e", "s">>, <<"S", "c", "h", "o", "l", "a", "r", "s", "h", "i", "p", " ", "i", "n", "f", "o", "r", "m", "a", "t", "i", "o", "n">>, <<"A", "c", "a", "d", "e", "m", "i", "c", " ", "c", "a", "l", "e", "n", "d", "a", "r">> >>

\* chat_interface in one script run: `clicked` is the index of the quick
\* button pressed (0 for none), user_input the value of the text widget.  A
\* processed message ends the run in st.rerun(); otherwise the run reaches
\* the end of the script and the app waits for the next event.
chat_interface(clicked, user_input, detected, translator_ok) ==
    IF clicked # 0
    THEN process_user_input(quick_options[clicked], detected, translator_ok)
    ELSE IF user_input # <<>>
    THEN process_user_input(user_input, detected, translator_ok)
    ELSE /\ rerun_requested' = FALSE
         /\ UNCHANGED <<history, course_pending, current_course, conversation_context,
                        knowledge_base, logs>>

\* What langdetect.detect may answer, "raise" for an exception.
Detected == {"en", "zh-cn", "ms", "ta", "fr", "raise"}

LongInput == [i \in 1..(MaxInputLen + 1) |-> "a"]

\* The one-character message U+662F (Chinese "yes").
Shi == <<"U+662F">>

\* Messages of the dialogues explored turn after turn.
DialogueInputs == {
    <<"c", "o", "m", "p", "u", "t", "e", "r", " ", "s", "c", "i", "e", "n", "c", "e", " ", "p", "r", "o", "g", "r", "a", "m">>, <<"y", "e", "s">>, Shi, <<"w", "h", "a", "t", " ", "t", "i", "m", "e", " ", "i", "s", " ", "i", "t">>, <<"h", "e", "l", "l", "o">> }

DialogueDetected == {"en", "ms"}

\* Messages resolved as the first turn of a session.
Inputs == DialogueInputs \cup {quick_options[i] : i \in 1..Len(quick_options)} \cup {
    <<"Y", "E", "S">>, <<"y">>, <<"H", "i">>, <<"s", "c", "h", "o", "l", "a", "r", "s", "h", "i", "p">>, <<"w", "h", "i", "c", "h">>, <<"w", "h", "i", "c", "h", " ", "f", "e", "e">>, <<"c", "o", "u", "r", "s", "e", " ", "f", "e", "e">>, <<"p", "r", "o", "g", "r", "a", "m", "m", "i", "n", "g", " ", "f", "e", "e">>,
    <<"t", "u", "i", "t", "i", "o", "n", " ", "f", "e", "e", "s">>, <<"'", "f", "e", "e", "'">>, <<"i", "n", "t", "e", "r", "n", "a", "t", "i", "o", "n", "a", "l", " ", "f", "e", "e">>, <<"l", "o", "c", "a", "l", " ", "p", "a", "y", "m", "e", "n", "t">>,
    <<"c", "o", "m", "p", "u", "t", "e", "r", " ", "s", "c", "i", "e", "n", "c", "e">>, <<"i", "n", "f", "o", "r", "m", "a", "t", "i", "o", "n", " ", "t", "e", "c", "h", "n", "o", "l", "o", "g", "y">>, <<"b", "u", "s", "i", "n", "e", "s", "s">>,
    <<"b", "u", "s", "i", "n", "e", "s", "s", " ", "s", "t", "u", "d", "y">>, <<"w", "h", "a", "t", " ", "a", "r", "e", " ", "t", "h", "e", " ", "a", "d", "m", "i", "s", "s", "i", "o", "n", " ", "r", "e", "q", "u", "i", "r", "e", "m", "e", "n", "t", "s">>,
    <<"a", "d", "m", "i", "s", "s", "i", "o", "n", " ", "r", "e", "q", "u", "i", "r", "e", "m", "e", "n", "t", "s">>, <<"v", "i", "s", "a">>, <<"a", " ", "n", "o">>, <<"E", "x", "a", "m", " ", "H", "a", "l", "l">>, <<"n", "o">>,
    <<" ", " ">>, <<"\"">>, LongInput }

\* Records of this session in the log file.
Logged == Cardinality({i \in 1..Len(logs.records) : logs.records[i].session_id = session_id})

\* The exploration stops after MaxTurns messages of the session.
TurnBudget == Len(history) < 2 * MaxTurns /\ Logged < MaxTurns

\* A message is processed, whatever brought the script to process_user_input.
Turn ==
    /\ TurnBudget
    /\ \E user_input \in DialogueInputs, detected \in DialogueDetected, translator_ok \in BOOLEAN :
          process_user_input(user_input, detected, translator_ok)
    /\ UNCHANGED <<chat_input, resolved>>

FirstTurn ==
    /\ history = <<>>
    /\ Logged = 0
    /\ \E user_input \in Inputs, detected \in Detected, translator_ok \in BOOLEAN :
          process_user_input(user_input, detected, translator_ok)
    /\ UNCHANGED <<chat_input, resolved>>

Next == Turn \/ ClearChat

Spec == Init /\ [][Next]_vars

NextResolver == FirstTurn \/ ClearChat

SpecResolver == Init /\ [][NextResolver]_vars

----------------------------------------------------------------------------
\* Script runs: the events of the page and the reruns st.rerun() asks for

\* Values the user leaves in the text widget (empty: the box is cleared).
AppTexts == {<<>>, <<"h", "e", "l", "l", "o">>, <<"y", "e", "s">>, <<" ", " ">>}

\* The user changes the text and presses Enter: the script runs with the new
\* widget value and no button pressed.
SubmitText ==
    /\ ~rerun_requested
    /\ TurnBudget
    /\ \E user_input \in AppTexts \ {chat_input}, detected \in DialogueDetected,
          translator_ok \in BOOLEAN :
          /\ chat_input' = user_input
          /\ chat_interface(0, user_input, detected, translator_ok)
    /\ UNCHANGED resolved

\* The user presses a quick question: the script runs with that button set.
ClickQuick ==
    /\ ~rerun_requested
    /\ TurnBudget
    /\ \E clicked \in 1..Len(quick_options), detected \in DialogueDetected,
          translator_ok \in BOOLEAN :
          chat_interface(clicked, chat_input, detected, translator_ok)
    /\ UNCHANGED <<chat_input, resolved>>

\* The user presses "Clear Chat History".
ClickClear == ~rerun_requested /\ ClearChat

\* The script run that st.rerun() asked for: no button is set any more, the
\* text widget still holds its value.
Rerun ==
    /\ rerun_requested
    /\ TurnBudget
    /\ \E detected \in DialogueDetected, translator_ok \in BOOLEAN :
          chat_interface(0, chat_input, detected, translator_ok)
    /\ UNCHANGED <<chat_input, resolved>>

NextApp == SubmitText \/ ClickQuick \/ ClickClear \/ Rerun

SpecApp == Init /\ [][NextApp]_vars

----------------------------------------------------------------------------
\* The log file shared by two sessions

\* A record an earlier run of the app left in chat_logs.json.
earlier_entry(i) ==
    [timestamp |-> "earlier", session_id |-> "s0", user_text |-> <<"h", "e", "l", "l", "o">>,
     detected_lang |-> "en", translated_input |-> <<"h", "e", "l", "l", "o">>,
     bot_reply |-> Resp("greeting", "", "", "en"), confidence |-> One,
     intent |-> "greeting", conversation_turn |-> i]

\* chat_logs.json when the session starts: absent, damaged, empty, or one
\* record short of LogCap.
LogFiles == {
    LogMissing, LogCorrupt,
    [status |-> "ok", records |-> <<>>],
    [status |-> "ok", records |-> [i \in 1..(LogCap - 1) |-> earlier_entry(i)]] }

\* The knowledge base of a first deployment (the sample table).
SampleKnowledge == load_knowledge_base([status |-> "missing", rows |-> <<>>])

InitLog == InitSession /\ knowledge_base = SampleKnowledge /\ logs \in LogFiles

LogInputs == {<<"h", "e", "l", "l", "o">>, <<"t", "u", "i", "t", "i", "o", "n", " ", "f", "e", "e", "s">>}

LogTurn ==
    /\ TurnBudget
    /\ \E user_input \in LogInputs : process_user_input(user_input, "en", TRUE)
    /\ UNCHANGED <<chat_input, resolved>>

\* Records of the second session in the log file.
OtherLogged ==
    Cardinality({i \in 1..Len(logs.records) : logs.records[i].session_id = other_session_id})

\* process_user_input of the second session: its session state is its own,
\* the log file is this one.
OtherSessionTurn ==
    /\ OtherLogged < MaxTurns
    /\ logs' = write_log(logs,
                         log_entry(other_session_id, <<"y", "e", "s">>, "en",
                                   get_enhanced_response(<<"y", "e", "s">>, "en", TRUE),
                                   OtherLogged + 1))
    /\ UNCHANGED <<history, course_pending, current_course, conversation_context,
                   knowledge_base, chat_input, rerun_requested, resolved>>

NextLog == LogTurn \/ OtherSessionTurn \/ ClearChat

SpecLog == InitLog /\ [][NextLog]_vars

----------------------------------------------------------------------------
\* Long sessions: more turns than the context window holds

LongInputs == {<<"h", "e", "l", "l", "o">>, <<"t", "u", "i", "t", "i", "o", "n", " ", "f", "e", "e", "s">>}

LongTurn ==
    /\ Logged < MaxLongTurns
    /\ \E user_input \in LongInputs : process_user_input(user_input, "en", TRUE)
    /\ UNCHANGED <<chat_input, resolved>>

\* "Clear Chat History" pressed early in the session.
ClearChatEarly == Logged <= 1 /\ ClearChat

NextLong == LongTurn \/ ClearChatEarly

InitLong == Init /\ knowledge_base = SampleKnowledge

SpecLong == InitLong /\ [][NextLong]_vars

----------------------------------------------------------------------------
\* get_enhanced_response called directly

CallTexts == {
    <<>>, <<" ">>, <<" ", " ">>, <<"\"">>, <<"h", "e", "l", "l", "o">>, <<"y", "e", "s">>, <<"v", "i", "s", "a">>, <<"t", "u", "i", "t", "i", "o", "n", " ", "f", "e", "e", "s">>,
    <<"w", "h", "a", "t", " ", "t", "i", "m", "e", " ", "i", "s", " ", "i", "t">>, <<"c", "o", "m", "p", "u", "t", "e", "r", " ", "s", "c", "i", "e", "n", "c", "e", " ", "p", "r", "o", "g", "r", "a", "m">>, LongInput }

\* detected_lang as a caller may pass it.
CallLangs == {"en", "zh-CN", "ms", "ta", "fr"}

Resolve ==
    /\ ~resolved.called
    /\ \E user_input \in CallTexts, detected_lang \in CallLangs, translator_ok \in BOOLEAN :
          resolved' = [called |-> TRUE, user_input |-> user_input,
                       detected_lang |-> detected_lang,
                       result |-> get_enhanced_response(user_input, detected_lang,
                                                        translator_ok)]
    /\ UNCHANGED <<history, course_pending, current_course, conversation_context,
                   knowledge_base, logs, chat_input, rerun_requested>>

NextCalls == Resolve

SpecCalls == Init /\ [][NextCalls]_vars

----------------------------------------------------------------------------
\* Reading the last turn off the session state

Turns == Len(history) \div 2

LastInput == history[Len(history) - 1][2]

LastResponse == history[Len(history)][2]

LastIntent == conversation_context[Len(conversation_context)].intent

LastConfidence == conversation_context[Len(conversation_context)].confidence

\* The bot's reply of the turn before the last one.
PrevResponse == history[Len(history) - 2][2]

\* The utterance as the resolver sees it: sanitized and case-folded.
Normalized(text) == lower(sanitize(text))

\* The topic whose confirmation question ("Would you like to know more about
\* ...?") the bot asked in the turn before the last one, None without one.
AwaitedTopic ==
    IF Turns >= 2 /\ PrevResponse.kind = "course_description"
    THEN PrevResponse.topic ELSE None

Affirmative == {<<"y", "e", "s">>, <<"y">>, Shi}

GreetingPhrases == {greetings[i] : i \in 1..Len(greetings)}

CanonicalNames == {COURSES[i].chars : i \in 1..Len(COURSES)}

\* The first topic, in table order, one of whose keywords the text contains.
KeywordTopic(text) ==
    LET hits == {i \in 1..Len(COURSES) : any_in(COURSES[i].keywords, text)}
    IN  IF hits = {} THEN None
        ELSE COURSES[CHOOSE i \in hits : \A j \in hits : i <= j].name

FeeKinds == {"fee_table", "fee_for_type", "fee_for_course"}

----------------------------------------------------------------------------
\* C1: the resolver follows the priority cascade pending-confirmation
\* resumption > greeting, time, fee > topic keyword lookup > fuzzy search >
\* fallback: the rule that produced the last response is outranked by no rule
\* that applies to the utterance.
RuleUsed ==
    IF LastIntent = "greeting" THEN "greeting"
    ELSE IF LastIntent = "time" THEN "time"
    ELSE IF LastIntent = "fees" THEN "fee"
    ELSE IF LastIntent = "course_inquiry" THEN "topic"
    ELSE IF LastIntent = "general" /\ LastResponse.kind = "kb_answer" THEN "fuzzy"
    ELSE IF LastIntent = "general" THEN "fallback"
    ELSE "error"

RuleRank ==
    ("resumption" :> 1) @@ ("greeting" :> 2) @@ ("time" :> 2) @@ ("fee" :> 2)
    @@ ("topic" :> 3) @@ ("fuzzy" :> 4) @@ ("fallback" :> 5)

RuleApplies(rule, text) ==
    IF rule = "resumption" THEN AwaitedTopic # None /\ lower(strip(text)) \in Affirmative
    ELSE IF rule = "greeting" THEN any_in(greetings, Normalized(text))
    ELSE IF rule = "time" THEN any_in(time_keywords, Normalized(text))
    ELSE IF rule = "fee" THEN any_in(fee_keywords, Normalized(text))
    ELSE IF rule = "topic" THEN \/ any_in(course_keywords, Normalized(text))
                                \/ KeywordTopic(Normalized(text)) # None
    ELSE IF rule = "fuzzy"
         THEN \E i \in 1..Len(knowledge_base) :
                 ExceedsThreshold(
                     overlap_ratio_of(split(Normalized(text)), split(knowledge_base[i].question)),
                     ratio(Normalized(text), knowledge_base[i].question))
    ELSE TRUE

C1_PriorityCascade ==
    (Turns >= 1 /\ RuleUsed # "error") =>
        \A rule \in DOMAIN RuleRank :
            RuleRank[rule] < RuleRank[RuleUsed] => ~RuleApplies(rule, LastInput)

\* C2: from IDLE, an utterance that hits a topic keyword without being the
\* canonical topic name (and to which no greeting, time or fee rule applies)
\* is answered by the confirmation question naming that topic, and
\* course_pending holds the topic after the turn.
HitsKeywordOnly(text) ==
    /\ KeywordTopic(Normalized(text)) # None
    /\ Normalized(text) \notin CanonicalNames
    /\ \A rule \in {"greeting", "time", "fee"} : ~RuleApplies(rule, text)

C2_KeywordHitAwaitsConfirmation ==
    (Turns >= 1 /\ AwaitedTopic = None /\ HitsKeywordOnly(LastInput)) =>
        /\ LastResponse.kind = "course_description"
        /\ LastResponse.topic = KeywordTopic(Normalized(LastInput))
        /\ course_pending = KeywordTopic(Normalized(LastInput))

\* C3: in the turn after the confirmation question for a topic, an
\* affirmative utterance ("yes", "y", U+662F, in any case) is answered by that
\* topic's detail with confidence exactly 1.0, and the session is IDLE again.
C3_AffirmativeReturnsDetail ==
    (AwaitedTopic # None /\ lower(strip(LastInput)) \in Affirmative) =>
        /\ LastResponse.kind = "course_description"
        /\ LastResponse.topic = AwaitedTopic
        /\ LastConfidence = One
        /\ course_pending = None

\* C4: in the turn after the confirmation question for a topic, an utterance
\* that is not affirmative leaves no pending topic behind and is resolved as
\* it would be from IDLE: the response, confidence and intent are those the
\* resolver gives the same utterance in a fresh session.
IdleResults(text) ==
    {get_enhanced_response(text, lang_code(d), ok) : d \in DOMAIN LANG_CODES, ok \in BOOLEAN}

C5_GreetingExactMatch ==
    Turns >= 1 =>
        /\ (LastResponse.kind = "greeting" /\ LastConfidence = One)
              <=> Normalized(LastInput) \in GreetingPhrases
        /\ course_pending = None

\* C6: every utterance containing a fee keyword gets the fee response with
\* confidence exactly 1.0, narrowed to current_course when the session holds
\* one, and the state stays IDLE.
C6_FeeKeywordGetsFeeResponse ==
    (Turns >= 1 /\ any_in(fee_keywords, Normalized(LastInput))) =>
        /\ LastResponse.kind \in FeeKinds
        /\ LastConfidence = One
        /\ current_course # None => LastResponse.topic = current_course
        /\ course_pending = None

\* C7: an utterance that is a canonical topic name gets that topic's detail
\* directly, with confidence exactly 1.0, and the state stays IDLE.
C7_CanonicalNameGetsDetail ==
    (Turns >= 1 /\ Normalized(LastInput) \in CanonicalNames) =>
        /\ LastResponse.kind = "course_description"
        /\ \E i \in 1..Len(COURSES) :
              COURSES[i].chars = Normalized(LastInput) /\ COURSES[i].name = LastResponse.topic
        /\ LastConfidence = One
        /\ course_pending = None

\* C8: when no rule intent applies, the entry with the best combined score
\* 0.6 * Jaccard + 0.4 * ratio answers, with that score as the confidence, if
\* the score is > 0.3; otherwise (a best score of 0.3, an empty table) the
\* fallback message is returned with confidence 0.0.
ScoreParts(text, question) ==
    <<overlap_ratio_of(split(lower(text)), split(question)), ratio(lower(text), question)>>

C8_FuzzyThreshold ==
    (Turns >= 1 /\ LastIntent = "general") =>
        LET text == sanitize(LastInput)
            part == [i \in 1..Len(knowledge_base) |->
                        ScoreParts(text, knowledge_base[i].question)]
            score == [i \in 1..Len(knowledge_base) |-> combined(part[i][1], part[i][2])]
            above == {i \in 1..Len(knowledge_base) : ExceedsThreshold(part[i][1], part[i][2])}
        IN  IF above # {}
            THEN \E i \in above :
                    /\ \A j \in above : RatLe(score[j], score[i])
                    /\ LastResponse.kind = "kb_answer"
                    /\ LastResponse.detail = knowledge_base[i].answer
                    /\ LastConfidence = score[i]
            ELSE LastResponse.kind = "fallback" /\ LastConfidence = Zero

\* C8's case: a best score of exactly 0.3 falls back.
C8_Witness ==
    /\ Turns >= 1
    /\ LastIntent = "general"
    /\ \E i \in 1..Len(knowledge_base) :
          LET p == ScoreParts(sanitize(LastInput), knowledge_base[i].question)
          IN combined(p[1], p[2]) = Rat(3, 10) /\ ~ExceedsThreshold(p[1], p[2])
    /\ LastResponse.kind = "fallback"
    /\ LastConfidence = Zero

\* C9: the confidence lies in [0, 1] and is exactly 0.0 if and only if the
\* response is the fallback message.
C9_ZeroIffFallback ==
    Turns >= 1 =>
        /\ RatLe(Zero, LastConfidence) /\ RatLe(LastConfidence, One)
        /\ LastConfidence = Zero <=> LastResponse.kind = "fallback"

\* C10 as claimed: a confidence of exactly 1.0 is returned only for rule-based
\* matches, never for an answer chosen by the fuzzy search, and every greeting
\* and time response has confidence 1.0.
C10_OneOnlyForRules ==
    Turns >= 1 =>
        /\ LastConfidence = One => RuleUsed \in {"greeting", "time", "fee", "topic"}
        /\ LastResponse.kind \in {"greeting", "time"} => LastConfidence = One

\* C10 as amended: a confidence of exactly 1.0 is returned only for greeting,
\* time and fee responses and for the answer of a knowledge-base entry whose
\* question is identical to the case-folded utterance; every greeting and time
\* response has confidence 1.0.
C10_OneOnlyForRulesOrExactQuestion ==
    Turns >= 1 =>
        /\ LastConfidence = One =>
              \/ RuleUsed \in {"greeting", "time", "fee"}
              \/ /\ RuleUsed = "fuzzy"
                 /\ \E i \in 1..Len(knowledge_base) :
                       /\ knowledge_base[i].question = Normalized(LastInput)
                       /\ knowledge_base[i].answer = LastResponse.detail
        /\ LastResponse.kind \in {"greeting", "time"} => LastConfidence = One

\* C10's case: the fuzzy search answers an utterance equal to a stored
\* question with confidence 1.0.
C10_Witness ==
    /\ Turns >= 1
    /\ RuleUsed = "fuzzy"
    /\ LastConfidence = One
    /\ \E i \in 1..Len(knowledge_base) : knowledge_base[i].question = Normalized(LastInput)

\* C11: for an empty or whitespace-only utterance the resolver short-circuits
\* to the fixed fallback message with confidence 0.0, without invoking
\* classify_intent or fuzzy_match_kb (so no intent of the classifier is
\* reported for it).
ClassifiedIntents == {"greeting", "course_inquiry", "fees", "time", "general"}

C11_BlankShortCircuits ==
    (resolved.called /\ strip(resolved.user_input) = <<>>) =>
        /\ resolved.result.response.kind = "fallback"
        /\ resolved.result.confidence = Zero
        /\ resolved.result.intent \notin ClassifiedIntents

\* C12: every error condition inside a turn degrades to the same fallback
\* response: whenever the bot's reply is a failure message it is the generic
\* "I don't have information about that" fallback, with confidence 0.0.
FailureKinds == {"fallback", "error_apology", "kb_empty", "no_relevant"}

C12_OnlyFallbackOnFailure ==
    \A k \in 1..Turns :
        history[2 * k][2].kind \in FailureKinds =>
            /\ history[2 * k][2].kind = "fallback"
            /\ conversation_context[k].confidence = Zero
            /\ conversation_context[k].intent # "error"

\* C13: every utterance handed to process_user_input gets a response: when
\* the user submits a non-empty text, the script run that handles it appends
\* the utterance and a bot response to the conversation.
C13_EveryUtteranceAnswered ==
    [][(chat_input' # chat_input /\ chat_input' # <<>>) =>
          /\ Len(history') = Len(history) + 2
          /\ history'[Len(history') - 1] = <<"You", chat_input'>>
          /\ history'[Len(history')][1] = "Bot"]_vars

\* C14: the combined similarity score of a string with itself is 1.0, the
\* empty string included: an utterance that reaches the fuzzy search as the
\* very text of a stored question scores 1.0 against it and is answered with
\* confidence 1.0.
C14_SelfSimilarityIsOne ==
    (Turns >= 1 /\ LastIntent = "general") =>
        \A i \in 1..Len(knowledge_base) :
            knowledge_base[i].question = sanitize(LastInput) =>
                /\ LET p == ScoreParts(sanitize(LastInput), knowledge_base[i].question)
                   IN combined(p[1], p[2]) = One
                /\ LastConfidence = One

\* C15: each turn adds exactly one record of that turn to the persisted log,
\* and the log is append-only: whatever the sessions do, the records persisted
\* before a step are still there after it, unmodified and in order.
IsPrefix(s, t) == Len(s) <= Len(t) /\ SubSeq(t, 1, Len(s)) = s

C15_OneRecordPerTurnAppendOnly ==
    [][/\ IsPrefix(logs.records, logs'.records)
       /\ Len(history') > Len(history) =>
             /\ Len(logs'.records) = Len(logs.records) + 1
             /\ LET entry == logs'.records[Len(logs'.records)]
                IN /\ entry.session_id = session_id
                   /\ entry.user_text = history'[Len(history') - 1][2]
                   /\ entry.bot_reply = history'[Len(history')][2]
                   /\ entry.translated_input = sanitize(entry.user_text)
                   /\ entry.detected_lang \in Localized
                   /\ entry.intent = conversation_context'[Len(conversation_context')].intent
                   /\ entry.confidence =
                         conversation_context'[Len(conversation_context')].confidence]_vars

\* C16: among the entries whose combined score exceeds 0.3, the answer
\* returned is that of the entry with the highest score, and of several
\* entries with the highest score (duplicated questions included) the first in
\* table order.
C16_BestScoreFirstWins ==
    (Turns >= 1 /\ LastIntent = "general" /\ LastResponse.kind = "kb_answer") =>
        LET text == sanitize(LastInput)
            score(i) == combined(ScoreParts(text, knowledge_base[i].question)[1],
                                 ScoreParts(text, knowledge_base[i].question)[2])
            exceeds(i) == ExceedsThreshold(ScoreParts(text, knowledge_base[i].question)[1],
                                           ScoreParts(text, knowledge_base[i].question)[2])
        IN  \E i \in 1..Len(knowledge_base) :
               /\ exceeds(i)
               /\ LastResponse.detail = knowledge_base[i].answer
               /\ \A j \in 1..Len(knowledge_base) :
                     exceeds(j) =>
                        /\ RatLe(score(j), score(i))
                        /\ score(j) = score(i) => i <= j

\* C16's case: two entries with the same question share the highest score
\* above the threshold, and the first one answers.
C16_Witness ==
    /\ Turns >= 1
    /\ LastIntent = "general"
    /\ LastResponse.kind = "kb_answer"
    /\ \E i, j \in 1..Len(knowledge_base) :
          /\ i < j
          /\ knowledge_base[i].question = knowledge_base[j].question
          /\ knowledge_base[i].answer # knowledge_base[j].answer
          /\ LET p == ScoreParts(sanitize(LastInput), knowledge_base[j].question)
             IN /\ ExceedsThreshold(p[1], p[2])
                /\ LastConfidence = combined(p[1], p[2])
          /\ LastResponse.detail = knowledge_base[i].answer

\* C17: a message submitted once is processed exactly once: the script runs
\* that st.rerun() asks for after the submission append nothing to the
\* history, write nothing to the log, and leave the app at rest.
C17_ProcessedExactlyOnce ==
    [][rerun_requested =>
          /\ history' = history
          /\ logs' = logs
          /\ ~rerun_requested']_vars

\* C18: the history has even length and is a sequence of adjacent pairs, a
\* ("You", utterance) entry immediately followed by the ("Bot", response)
\* entry holding the resolver's response to that utterance (in the language
\* the log records as detected for the turn).
C18_HistoryAlternates ==
    /\ Len(history) % 2 = 0
    /\ \A k \in 1..Turns :
          /\ history[2 * k - 1][1] = "You"
          /\ history[2 * k][1] = "Bot"
          /\ LET entry == logs.records[Len(logs.records) - Turns + k]
             IN /\ entry.user_text = history[2 * k - 1][2]
                /\ \E translator_ok \in BOOLEAN :
                      get_enhanced_response(history[2 * k - 1][2], entry.detected_lang,
                                            translator_ok).response = history[2 * k][2]

\* C18's case: a turn processed after a clear that followed an earlier turn.
C18_Witness ==
    /\ Turns = 1
    /\ Logged = 2
    /\ history[1] = <<"You", logs.records[2].user_text>>
    /\ history[2] = <<"Bot", logs.records[2].bot_reply>>

\* C19: conversation_context holds at most 10 items and equals, in order, the
\* records (user_input, intent, confidence) of the most recent min(n, 10)
\* turns processed since the last clear, as the history and the log show them.
C19_ContextIsLastTen ==
    LET n == Turns
        k == IF n < ContextCap THEN n ELSE ContextCap
        logged == Len(logs.records)
    IN  /\ Len(conversation_context) = k
        /\ k <= ContextCap
        /\ \A i \in 1..k :
              /\ conversation_context[i].user_input = history[2 * (n - k + i) - 1][2]
              /\ conversation_context[i].user_input = logs.records[logged - k + i].user_text
              /\ conversation_context[i].intent = logs.records[logged - k + i].intent
              /\ conversation_context[i].confidence = logs.records[logged - k + i].confidence

\* C19's case: the eleventh turn since a clear has evicted the first item,
\* which differed from the second.
C19_Witness ==
    /\ Turns = ContextCap + 1
    /\ Logged = ContextCap + 2
    /\ Len(conversation_context) = ContextCap
    /\ history[1][2] # history[3][2]
    /\ conversation_context[1].user_input = history[3][2]
    /\ conversation_context[ContextCap].user_input = history[2 * Turns - 1][2]

====
